---- MODULE Spec2Model ----
(***************************************************************************)
(* The HackerNews "Who's Hiring" fetch step                                *)
(* (src/src/events/fetch_hackernews_step.py): the comment parser           *)
(* parse_hn_comment as an operator over character sequences, and the       *)
(* event handler as a state machine whose steps are its awaits.            *)
(*                                                                         *)
(* A Python str is a sequence of one-character strings.                    *)
(***************************************************************************)
EXTENDS Integers, Sequences, FiniteSets, TLC

VARIABLES
    comment,      \* the comment record last handed out by the API / under parse
    result,       \* job_data: what parse_hn_comment returned for it
    pc,           \* where the handler is
    source,       \* input_data.get("source", "")
    now,          \* the clock of this invocation, read by datetime.now(timezone.utc)
    thread,       \* upstream: the thread item served by the API
    threadOutcome,\* upstream: whether the thread request succeeds
    outcomes,     \* upstream: per position of comment_ids, whether that request succeeds
    idx,          \* how many of comment_ids the loop has gone through
    jobs_found,   \* the handler's counter
    emitted,      \* this run's context.emit calls, in order
    fetchLog,     \* this run's client.get calls, in order
    parsed,       \* this run's calls of parse_hn_comment (the ids of the comments passed)
    store,        \* context.state, namespace "sources", key "hackernews"
    writes,       \* this run's context.state.set calls
    runs,         \* handler invocations so far
    storeAtStart, \* the store as this run found it (history)
    prev          \* what the previous completed run did (history)

vars == <<comment, result, pc, source, now, thread, threadOutcome, outcomes, idx,
          jobs_found, emitted, fetchLog, parsed, store, writes, runs, storeAtStart, prev>>

handlerVars == <<pc, source, now, thread, threadOutcome, outcomes, idx, jobs_found,
                 emitted, fetchLog, parsed, store, writes, runs, storeAtStart, prev>>

----------------------------------------------------------------------------
(* Bounds of the model *)

MaxLen == 5          \* longest text enumerated character by character
MaxKids == 2         \* longest child list enumerated id by id
MaxFailures == 1     \* failing comment requests per upstream scenario
MaxRuns == 2         \* handler invocations per behaviour

(* Program constants *)

MaxCompanyLen == 100
MaxTitleLen == 200
MaxLocationLen == 100
MaxDescriptionLen == 500
MaxComments == 30

----------------------------------------------------------------------------
(* String literals of the source, as character sequences *)

UnknownCompany == <<"U", "n", "k", "n", "o", "w", "n", " ", "C", "o", "m", "p", "a", "n", "y">>
SoftwareEngineer == <<"S", "o", "f", "t", "w", "a", "r", "e", " ", "E", "n", "g", "i", "n", "e", "e", "r">>
RemoteLocation == <<"R", "e", "m", "o", "t", "e">>
UrlBase == <<"h", "t", "t", "p", "s", ":", "/", "/", "n", "e", "w", "s", ".", "y", "c", "o", "m", "b", "i", "n", "a", "t", "o", "r", ".", "c", "o", "m", "/", "i", "t", "e", "m", "?", "i", "d", "=">>
ParagraphMark == <<"<", "p", ">">>
Pipe == <<"|">>

\* the characters str.strip() removes that texts of the model can hold
Whitespace == {" ", "\n", "\t"}

----------------------------------------------------------------------------
(* Python's string operations *)

Min(S) == CHOOSE x \in S : \A y \in S : x <= y

\* a slice that keeps one character too many
SliceInclusive(s, n) == SubSeq(s, 1, IF Len(s) < n + 1 THEN Len(s) ELSE n + 1)

\* s[:n]
Slice(s, n) == SubSeq(s, 1, IF Len(s) < n THEN Len(s) ELSE n)

\* s[i:] with i counted from 1
From(s, i) == SubSeq(s, i, Len(s))

\* str.strip(): drop the leading and the trailing whitespace
Strip(s) ==
    LET n == Len(s)
        inner == {i \in 1..n : s[i] \notin Whitespace}
    IN  IF inner = {} THEN <<>>
        ELSE LET lo == CHOOSE i \in 1..n :
                          s[i] \notin Whitespace /\ \A j \in 1..(i - 1) : s[j] \in Whitespace
                 hi == CHOOSE i \in 1..n :
                          s[i] \notin Whitespace /\ \A j \in (i + 1)..n : s[j] \in Whitespace
             IN  SubSeq(s, lo, hi)

\* str.find(sep) counted from 1, 0 when sep does not occur
Find(s, sep) ==
    LET hits == {i \in 1..(Len(s) - Len(sep) + 1) :
                    s[i] = sep[1] /\ SubSeq(s, i, i + Len(sep) - 1) = sep}
    IN  IF hits = {} THEN 0 ELSE Min(hits)

\* str.split(sep): the pieces between the occurrences of sep, left to right
RECURSIVE Split(_, _)
Split(s, sep) ==
    LET k == Find(s, sep)
    IN  IF k = 0 THEN <<s>>
        ELSE <<SubSeq(s, 1, k - 1)>> \o Split(From(s, k + Len(sep)), sep)

\* where a match of <[^>]+> that starts at k ends: the first ">" after k (0: none)
TagEnd(s, k) ==
    LET closers == {j \in (k + 1)..Len(s) : s[j] = ">"}
    IN  IF closers = {} THEN 0 ELSE Min(closers)

\* the pattern <[^>]+> matches at k: "<", at least one character that is not ">", ">"
TagAt(s, k) == s[k] = "<" /\ TagEnd(s, k) >= k + 2

\* the leftmost match at or after i (0: none), as re's scan finds it
Search(s, i) ==
    LET starts == {k \in i..Len(s) : TagAt(s, k)}
    IN  IF starts = {} THEN 0 ELSE Min(starts)

\* re.sub(r"<[^>]+>", repl, s) from position i on: copy up to the next match, put
\* repl for the match, go on after the match
RECURSIVE ReSub(_, _, _)
ReSub(s, i, repl) ==
    LET k == Search(s, i)
    IN  IF k = 0 THEN From(s, i)
        ELSE SubSeq(s, i, k - 1) \o repl \o ReSub(s, TagEnd(s, k) + 1, repl)

Digit(d) == <<"0", "1", "2", "3", "4", "5", "6", "7", "8", "9">>[d + 1]

\* str(n) for an integer n >= 0
RECURSIVE IntToStr(_)
IntToStr(n) == IF n < 10 THEN <<Digit(n)>> ELSE IntToStr(n \div 10) \o <<Digit(n % 10)>>

----------------------------------------------------------------------------
(* parse_hn_comment *)

None == [none |-> TRUE]
NotRun == [pending |-> TRUE]

\* comment.get("text", "")
TextOf(c) == IF c.hasText THEN c.text ELSE <<>>

\* clean_text
CleanText(text) == Strip(ReSub(text, 1, <<" ">>))

\* a parser that takes the first paragraph that is not empty as the header
FirstLineSkipsEmpty(text) ==
    LET lines == SelectSeq(Split(text, ParagraphMark), LAMBDA l : l # <<>>)
    IN  IF lines = <<>> THEN <<>> ELSE Strip(ReSub(lines[1], 1, <<>>))

\* first_line: lines[0] without its tags, stripped
FirstLine(text) == Strip(ReSub(Split(text, ParagraphMark)[1], 1, <<>>))

\* parts
Parts(text) ==
    LET raw == Split(FirstLine(text), Pipe)
    IN  [i \in 1..Len(raw) |-> Strip(raw[i])]

\* a parser that stamps every posting with the clock
PostedAtNow(c, t) == t

PostedAt(c, t) == IF c.hasTime THEN c.time ELSE t

\* a parser that accepts a header without "|"
AcceptedAtLeastOne(parts) == Len(parts) >= 1

\* if len(parts) >= 2
Accepted(parts) == Len(parts) >= 2

Company(parts) == IF parts[1] # <<>> THEN parts[1] ELSE UnknownCompany

Title(parts) == IF Len(parts) > 1 /\ parts[2] # <<>> THEN parts[2] ELSE SoftwareEngineer

\* a parser that takes the last field for the location
LocationLast(parts) ==
    IF Len(parts) > 2 /\ parts[Len(parts)] # <<>> THEN parts[Len(parts)] ELSE RemoteLocation

Location(parts) == IF Len(parts) > 2 /\ parts[3] # <<>> THEN parts[3] ELSE RemoteLocation

\* t is the clock at the call
parse_hn_comment(c, t) ==
    LET text == TextOf(c)
        parts == Parts(text)
    IN  IF text = <<>> THEN None
        ELSE IF Accepted(parts)
             THEN [id |-> IntToStr(c.id),
                   company |-> Slice(Company(parts), MaxCompanyLen),
                   title |-> Slice(Title(parts), MaxTitleLen),
                   location |-> Slice(Location(parts), MaxLocationLen),
                   description |-> Slice(CleanText(text), MaxDescriptionLen),
                   url |-> UrlBase \o IntToStr(c.id),
                   posted_at |-> PostedAt(c, t)]
             ELSE None

----------------------------------------------------------------------------
(* Inputs of the parser *)

Alphabet == {"a", " ", "|", "<", ">", "p"}

ShortTexts == UNION {[1..n -> Alphabet] : n \in 0..MaxLen}

Rep(c, n) == [i \in 1..n |-> c]

AcmeWrapped == <<"<", "p", ">", "A", "c", "m", "e", " ", "C", "o", "r", "p", " ", "|", " ", "B", "a", "c", "k", "e", "n", "d", " ", "E", "n", "g", "i", "n", "e", "e", "r", " ", "|", " ", "R", "e", "m", "o", "t", "e", " ", "|", " ", "W", "e", " ", "b", "u", "i", "l", "d", " ", "t", "h", "i", "n", "g", "s", "<", "/", "p", ">">>
AcmeHeader == <<"A", "c", "m", "e", " ", "C", "o", "r", "p", " ", "|", " ", "B", "a", "c", "k", "e", "n", "d", " ", "E", "n", "g", "i", "n", "e", "e", "r", " ", "|", " ", "R", "e", "m", "o", "t", "e", " ", "|", " ", "W", "e", " ", "b", "u", "i", "l", "d", " ", "t", "h", "i", "n", "g", "s">>
JustANote == <<"J", "u", "s", "t", " ", "a", " ", "n", "o", "t", "e">>
AcmeCorp == <<"A", "c", "m", "e", " ", "C", "o", "r", "p">>
BackendEngineer == <<"B", "a", "c", "k", "e", "n", "d", " ", "E", "n", "g", "i", "n", "e", "e", "r">>

\* the header with its closing paragraph tag and no opening one
AcmeUnwrapped == AcmeHeader \o <<"<", "/", "p", ">">>

ExampleTexts == {AcmeWrapped, AcmeUnwrapped, AcmeHeader, JustANote}

\* "aaa | bbb | ccc<p>ddd" with fields around their limits
FieldLens == {<<99, 200, 100>>, <<100, 201, 101>>, <<101, 199, 0>>, <<0, 0, 101>>}
BodyLens == {0, 150, 600}
LongHeaderTexts ==
    {Rep("a", f[1]) \o <<" ", "|", " ">> \o Rep("b", f[2]) \o <<" ", "|", " ">> \o Rep("c", f[3])
        \o ParagraphMark \o Rep("d", b) : f \in FieldLens, b \in BodyLens}

\* "a|b<p>ddd": descriptions of 499, 500, 501 and 600 characters
DescLens == {495, 496, 497, 596}
LongBodyTexts == {<<"a", "|", "b">> \o ParagraphMark \o Rep("d", b) : b \in DescLens}

Texts == ShortTexts \cup ExampleTexts \cup LongHeaderTexts \cup LongBodyTexts

Times == 1..MaxRuns

\* comments with "time" of every text, comments without of the examples, a comment
\* without "text"
ParseInputs ==
    {[id |-> 7, hasText |-> TRUE, text |-> t, hasTime |-> TRUE, time |-> 0, deleted |-> FALSE] :
        t \in Texts}
    \cup {[id |-> 7, hasText |-> TRUE, text |-> t, hasTime |-> FALSE, time |-> 0, deleted |-> FALSE] :
        t \in ExampleTexts}
    \cup {[id |-> 7, hasText |-> FALSE, text |-> <<>>, hasTime |-> TRUE, time |-> 0, deleted |-> FALSE]}

NoComment == [null |-> TRUE]
NoRecord == [unset |-> TRUE]
NoThread == [null |-> TRUE]
NoPrev == [none |-> TRUE]

\* the handler before its first invocation
HandlerIdle ==
    /\ pc = "idle"
    /\ source = ""
    /\ threadOutcome = "unknown"
    /\ idx = 0
    /\ jobs_found = 0
    /\ emitted = <<>>
    /\ fetchLog = <<>>
    /\ parsed = <<>>
    /\ store = NoRecord
    /\ writes = 0
    /\ runs = 0
    /\ storeAtStart = NoRecord
    /\ prev = NoPrev

\* the parser alone: one comment, one call
ParseInit ==
    /\ comment \in ParseInputs
    /\ result = NotRun
    /\ now \in Times
    /\ thread = NoThread
    /\ outcomes = <<>>
    /\ HandlerIdle

ParseComment ==
    /\ result = NotRun
    /\ result' = parse_hn_comment(comment, now)
    /\ UNCHANGED <<comment, handlerVars>>

ParseNext == ParseComment

ParseSpec == ParseInit /\ [][ParseNext]_vars

----------------------------------------------------------------------------
(* The upstream API: the thread item and the comment items it serves *)

WHO_IS_HIRING_THREADS == <<42575537, 42057092, 41709301>>

\* WHO_IS_HIRING_THREADS[:1]: the loop over threads has one iteration
ThreadsToProcess == Slice(WHO_IS_HIRING_THREADS, 1)

GoodText == <<"A", "|", "B", "|", "C">> \o ParagraphMark \o <<"d">>
BlankFieldsText == <<" ", "|", " ">>

Item(id, hasText, text, hasTime, deleted) ==
    [id |-> id, hasText |-> hasText, text |-> text, hasTime |-> hasTime, time |-> 0,
     deleted |-> deleted]

\* the kind of comment the API serves for an id
Kind(id) == id % 8

\* the JSON the API serves for comment id: with and without "time", deleted, without
\* "|", with an empty text, without "text", null, with blank fields
CommentOf(id) ==
    CASE Kind(id) = 1 -> Item(id, TRUE, GoodText, TRUE, FALSE)
      [] Kind(id) = 2 -> Item(id, TRUE, GoodText, FALSE, FALSE)
      [] Kind(id) = 3 -> Item(id, TRUE, GoodText, TRUE, TRUE)
      [] Kind(id) = 4 -> Item(id, TRUE, JustANote, TRUE, FALSE)
      [] Kind(id) = 5 -> Item(id, TRUE, <<>>, TRUE, FALSE)
      [] Kind(id) = 6 -> Item(id, FALSE, <<>>, TRUE, FALSE)
      [] Kind(id) = 7 -> NoComment
      [] OTHER -> Item(id, TRUE, BlankFieldsText, FALSE, FALSE)

KidIds == 1..4
ShortKidLists == UNION {[1..n -> KidIds] : n \in 0..MaxKids}
LongKidList == [i \in 1..(MaxComments + 1) |-> i]

\* the ids of the comments the API serves
UpstreamIds == KidIds \cup {LongKidList[i] : i \in DOMAIN LongKidList}

\* null, an item without a child list, items with one
Threads == {NoThread, [title |-> "hiring"]} \cup {[kids |-> K] : K \in ShortKidLists \cup {LongKidList}}

\* not thread or "kids" not in thread
NoComments(t) == t = NoThread \/ "kids" \notin DOMAIN t

\* comment_ids = thread["kids"][:30]
CommentIds(t) == IF NoComments(t) THEN <<>> ELSE Slice(t.kids, MaxComments)

Failures(o) == Cardinality({i \in DOMAIN o : o[i] = "fail"})

\* what the request for position i of comment_ids can come to: a request's outcome
\* is the API's, decided when the request is first made, and the same when a later
\* invocation repeats the request against the same upstream
Outcomes(o, i) ==
    IF o[i] # "unknown" THEN {o[i]}
    ELSE IF Failures(o) < MaxFailures THEN {"ok", "fail"} ELSE {"ok"}

ThreadOutcomes(o) == IF o # "unknown" THEN {o} ELSE {"ok", "fail"}

----------------------------------------------------------------------------
(* handler *)

Sources == {"hackernews", "all", "github", ""}

Null == "null"

\* a handler that runs when the source is missing
SkipsUnlessMissing(s) == s # "hackernews" /\ s # "all" /\ s # ""

\* source != "hackernews" and source != "all"
Skips(s) == s # "hackernews" /\ s # "all"

\* a handler that does not look at "deleted"
ParseableIgnoresDeleted(c) == c # NoComment /\ TextOf(c) # <<>>

\* the comment is handed to the parser
Parseable(c) == c # NoComment /\ TextOf(c) # <<>> /\ ~c.deleted

Event(job) == [topic |-> "normalize-job", data |-> [source |-> "hackernews", rawJob |-> job]]

Pad2(n) == IF n < 10 THEN <<"0">> \o IntToStr(n) ELSE IntToStr(n)

\* datetime.isoformat() of the instant t seconds after the epoch, t < 60
IsoFormat(t) ==
    <<"1", "9", "7", "0", "-", "0", "1", "-", "0", "1", "T", "0", "0", ":", "0", "0", ":">>
        \o Pad2(t) \o <<"+", "0", "0", ":", "0", "0">>

\* a record whose status does not follow the count
StatusRecordAlwaysSuccess(n, t) ==
    [lastFetch |-> IsoFormat(t), jobCount |-> n, status |-> "success", error |-> Null]

StatusRecord(n, t) ==
    [lastFetch |-> IsoFormat(t),
     jobCount |-> n,
     status |-> IF n > 0 THEN "success" ELSE "error",
     error |-> IF n > 0 THEN Null ELSE "No jobs found"]

Running == pc \in {"thread", "comments", "write"}

Init ==
    /\ comment = NoComment
    /\ result = NotRun
    /\ now = 0
    /\ thread \in Threads
    /\ outcomes = [i \in 1..Len(CommentIds(thread)) |-> "unknown"]
    /\ HandlerIdle

\* the event arrives, later than the one before: handler(input_data, context)
\* up to the client's creation. An invocation is short against the clock's grain:
\* every reading of the clock within it gives the same instant
HandlerStart ==
    /\ pc \in {"idle", "done", "skipped"}
    /\ runs < MaxRuns
    /\ \E s \in Sources :
        /\ source' = s
        /\ pc' = IF Skips(s) THEN "skipped" ELSE "thread"
    /\ now' = now + 1
    /\ runs' = runs + 1
    /\ idx' = 0
    /\ jobs_found' = 0
    /\ emitted' = <<>>
    /\ fetchLog' = <<>>
    /\ parsed' = <<>>
    /\ writes' = 0
    /\ storeAtStart' = store
    /\ prev' = IF pc = "done" THEN [jobCount |-> jobs_found, emitted |-> emitted]
               ELSE prev
    /\ UNCHANGED <<comment, result, thread, threadOutcome, outcomes, store>>

\* a handler that lets the thread request's exception out
ThreadFailedRaises == pc' = "raised"

\* the request raised, or raise_for_status did: except Exception, logged
ThreadFailed == pc' = "write"

\* the thread's JSON is there
ThreadFetched ==
    pc' = IF NoComments(thread) \/ CommentIds(thread) = <<>> THEN "write" ELSE "comments"

FetchThread ==
    /\ pc = "thread"
    /\ fetchLog' = Append(fetchLog, ThreadsToProcess[1])
    /\ \E o \in ThreadOutcomes(threadOutcome) :
        /\ threadOutcome' = o
        /\ IF o = "fail" THEN ThreadFailed ELSE ThreadFetched
    /\ UNCHANGED <<comment, result, source, now, thread, outcomes, idx, jobs_found, emitted,
                   parsed, store, writes, runs, storeAtStart, prev>>

\* after position i of comment_ids: the next comment, or the end of the loops
AfterComment(i) == pc' = IF i = Len(CommentIds(thread)) THEN "write" ELSE "comments"

\* a handler whose loop ends at the first failing comment
CommentFailedAborts(i) ==
    /\ pc' = "write"
    /\ UNCHANGED <<comment, result, jobs_found, emitted, parsed>>

\* the request raised, or raise_for_status did: except Exception, logged
CommentFailed(i) ==
    /\ AfterComment(i)
    /\ UNCHANGED <<comment, result, jobs_found, emitted, parsed>>

\* job_data for each comment the API can serve and each clock of a call: the
\* values of parse_hn_comment the handler can come to use, computed once
JobData ==
    [id \in UpstreamIds |->
        [t \in Times |->
            IF Parseable(CommentOf(id)) THEN parse_hn_comment(CommentOf(id), t) ELSE None]]

\* the comment's JSON is there
CommentFetched(i) ==
    LET c == CommentOf(CommentIds(thread)[i])
        job == JobData[c.id][now]
    IN  /\ comment' = c
        /\ IF Parseable(c)
           THEN /\ result' = job
                /\ parsed' = Append(parsed, c.id)
                /\ IF job # None
                   THEN /\ emitted' = Append(emitted, Event(job))
                        /\ jobs_found' = jobs_found + 1
                   ELSE UNCHANGED <<emitted, jobs_found>>
           ELSE UNCHANGED <<result, parsed, emitted, jobs_found>>
        /\ AfterComment(i)

FetchComment ==
    /\ pc = "comments"
    /\ idx < Len(CommentIds(thread))
    /\ idx' = idx + 1
    /\ fetchLog' = Append(fetchLog, CommentIds(thread)[idx + 1])
    /\ \E o \in Outcomes(outcomes, idx + 1) :
        /\ outcomes' = [outcomes EXCEPT ![idx + 1] = o]
        /\ IF o = "fail" THEN CommentFailed(idx + 1) ELSE CommentFetched(idx + 1)
    /\ UNCHANGED <<source, now, thread, threadOutcome, store, writes, runs, storeAtStart, prev>>

\* context.state.set("sources", "hackernews", ...)
WriteStatus ==
    /\ pc = "write"
    /\ store' = StatusRecord(jobs_found, now)
    /\ writes' = writes + 1
    /\ pc' = "done"
    /\ UNCHANGED <<comment, result, source, now, thread, threadOutcome, outcomes, idx,
                   jobs_found, emitted, fetchLog, parsed, runs, storeAtStart, prev>>

Next == HandlerStart \/ FetchThread \/ FetchComment \/ WriteStatus

Spec == Init /\ [][Next]_vars

\* every await of the handler returns: the client's requests time out after 30 s,
\* and the runtime resumes the coroutine
FairSpec == Spec /\ WF_vars(FetchThread) /\ WF_vars(FetchComment) /\ WF_vars(WriteStatus)

----------------------------------------------------------------------------
(* Properties of parse_hn_comment, under ParseSpec *)

Parsed == result # NotRun
Returned == Parsed /\ result # None

\* the header line of the comment under parse, and its trimmed fields
Header == FirstLine(TextOf(comment))
Fields == Parts(TextOf(comment))
NonEmptyFields == {i \in 1..Len(Fields) : Fields[i] # <<>>}

\* C3 as stated: a comment whose header yields fewer than 2 non-empty fields is
\* rejected. (Refuted: "a|" has one non-empty field and is accepted, its title
\* defaulted.)
C3_FewerThanTwoNonEmptyRejected ==
    (Parsed /\ Cardinality(NonEmptyFields) < 2) => result = None

\* C3 amended: a comment whose header has no "|", and so fewer than 2 fields, empty
\* ones counted, is rejected; "Just a note" is.
C3_FewerThanTwoFieldsRejected ==
    (Parsed /\ \A i \in 1..Len(Header) : Header[i] # "|") => result = None

C3_Witness ==
    /\ Parsed
    /\ comment.hasText
    /\ comment.text = JustANote
    /\ result = None

\* C4 as stated: the header wrapped in a leading paragraph marker parses to the
\* Acme posting. (Refuted: the text before the first marker is empty; None.)
C4_WrappedExampleParsed ==
    (Parsed /\ comment.hasText /\ comment.text = AcmeWrapped) =>
        /\ result # None
        /\ result.company = AcmeCorp
        /\ result.title = BackendEngineer
        /\ result.location = RemoteLocation
        /\ result.description = AcmeHeader

\* C4 amended: the example text without the leading paragraph marker parses to company
\* "Acme Corp", title "Backend Engineer", location "Remote" and the description given;
\* with the leading marker the header line is empty and the parser returns nothing.
C4_UnwrappedExampleParsed ==
    /\ (Parsed /\ comment.hasText /\ comment.text = AcmeUnwrapped) =>
            /\ result # None
            /\ result.company = AcmeCorp
            /\ result.title = BackendEngineer
            /\ result.location = RemoteLocation
            /\ result.description = AcmeHeader
    /\ (Parsed /\ comment.hasText /\ comment.text = AcmeWrapped) => result = None

C4_Witness ==
    /\ Returned
    /\ comment.text = AcmeUnwrapped
    /\ result.company = AcmeCorp
    /\ result.description = AcmeHeader

OrDefault(field, default) == IF field = <<>> THEN default ELSE field
Prefix(s, n) == [i \in 1..(IF Len(s) < n THEN Len(s) ELSE n) |-> s[i]]

\* C5: an accepted comment's company is field 0 or "Unknown Company" when blank, its
\* title field 1 or "Software Engineer" when blank, its location field 2 or "Remote"
\* when absent or blank (each then cut to its limit); later fields play no part.
C5_FieldsAndDefaults ==
    Returned =>
        /\ result.company = Prefix(OrDefault(Fields[1], UnknownCompany), MaxCompanyLen)
        /\ result.title = Prefix(OrDefault(Fields[2], SoftwareEngineer), MaxTitleLen)
        /\ result.location =
              Prefix(IF Len(Fields) >= 3 THEN OrDefault(Fields[3], RemoteLocation)
                     ELSE RemoteLocation, MaxLocationLen)

\* a company defaulted, a location defaulted for a blank third field, a fourth field
C5_Witness ==
    /\ Returned
    /\ Len(Fields) >= 4
    /\ Fields[1] = <<>>
    /\ Fields[3] = <<>>
    /\ Fields[4] # <<>>
    /\ result.company = UnknownCompany
    /\ result.location = RemoteLocation

\* C9: a returned record's company, title, location and description are at most 100,
\* 200, 100 and 500 long; long fields do not make the parser reject; a stripped text
\* longer than 500 gives exactly its first 500 characters.
C9_Truncation ==
    /\ Returned =>
        /\ Len(result.company) <= 100
        /\ Len(result.title) <= 200
        /\ Len(result.location) <= 100
        /\ Len(result.description) <= 500
        /\ Len(CleanText(comment.text)) > 500 =>
              result.description = Prefix(CleanText(comment.text), 500)
    /\ (Parsed /\ comment.hasText /\ Len(comment.text) > 500 /\ Len(Fields) >= 2) =>
          result # None

\* a 600-character description and a 101-character company, both cut
C9_Witness ==
    /\ Returned
    /\ Len(CleanText(comment.text)) >= 600
    /\ Len(result.description) = 500
    /\ Len(Fields[1]) = 101
    /\ Len(result.company) = 100

----------------------------------------------------------------------------
(* Properties of the handler, under Spec and FairSpec *)

AcceptedSource == source \in {"hackernews", "all"}

\* the thread request succeeded and the thread has a child list
ThreadServed == threadOutcome = "ok" /\ thread # NoThread /\ "kids" \in DOMAIN thread

\* the loops are over
LoopsDone == pc \in {"write", "done"}

\* the first 30 ids of the child list
First30 == [i \in 1..(IF Len(thread.kids) < 30 THEN Len(thread.kids) ELSE 30) |-> thread.kids[i]]

\* the ids among the first 30, from position i on, whose request did not fail
RECURSIVE SurvivingFrom(_)
SurvivingFrom(i) ==
    IF i > Len(First30) THEN <<>>
    ELSE (IF outcomes[i] = "fail" THEN <<>> ELSE <<First30[i]>>) \o SurvivingFrom(i + 1)

\* what a run at clock t whose requests all succeed emits for the child list ids
RECURSIVE EmitsFor(_, _)
EmitsFor(ids, t) ==
    IF ids = <<>> THEN <<>>
    ELSE LET c == CommentOf(Head(ids))
             job == JobData[c.id][t]
         IN  (IF c # NoComment /\ TextOf(c) # <<>> /\ ~c.deleted /\ job # None
              THEN <<Event(job)>> ELSE <<>>) \o EmitsFor(Tail(ids), t)

\* C1: a failing comment request is skipped and aborts nothing: the requests made are
\* the thread's and then those of the first 30 child ids, in list order, whichever of
\* them failed, and the events emitted are those of a run over the child list without
\* the failing ids.
C1_FailureSkipsOnlyThatComment ==
    /\ (pc = "comments" /\ ThreadServed) =>
          fetchLog = <<ThreadsToProcess[1]>> \o SubSeq(First30, 1, idx)
    /\ (LoopsDone /\ ThreadServed) =>
          /\ fetchLog = <<ThreadsToProcess[1]>> \o First30
          /\ emitted = EmitsFor(SurvivingFrom(1), now)

\* a child list longer than 30, a failure before a comment that was emitted
C1_Witness ==
    /\ pc = "done"
    /\ ThreadServed
    /\ Len(thread.kids) > 30
    /\ \E i, j \in 1..Len(First30) :
          /\ i < j
          /\ outcomes[i] = "fail"
          /\ \E e \in 1..Len(emitted) : emitted[e].data.rawJob.id = IntToStr(First30[j])

\* C2: the record a completed run wrote has jobCount = the number of normalize-job
\* events the run emitted, status "success" exactly when jobCount > 0 and "error"
\* exactly when jobCount = 0, error null exactly when status is "success".
C2_StatusRecordMatchesEmits ==
    pc = "done" =>
        /\ store # NoRecord
        /\ store.jobCount = Cardinality({e \in 1..Len(emitted) : emitted[e].topic = "normalize-job"})
        /\ store.jobCount = Len(emitted)
        /\ store.status \in {"success", "error"}
        /\ store.status = "success" <=> store.jobCount > 0
        /\ store.status = "error" <=> store.jobCount = 0
        /\ store.error = Null <=> store.status = "success"

C2_Witness ==
    /\ pc = "done"
    /\ Len(emitted) >= 2
    /\ store.jobCount = Len(emitted)
    /\ store.status = "success"
    /\ storeAtStart # NoRecord

\* the positions fetched so far whose comment is deleted or has no text
Unpostable ==
    {i \in 1..idx :
        /\ outcomes[i] = "ok"
        /\ CommentOf(First30[i]) # NoComment
        /\ \/ CommentOf(First30[i]).deleted
           \/ ~CommentOf(First30[i]).hasText
           \/ CommentOf(First30[i]).text = <<>>}

\* C6: a fetched comment that is deleted, or whose text is empty or absent, is never
\* passed to parse_hn_comment and no event carries its id; the counter counts the
\* emitted events only.
C6_DeletedOrEmptyNeverPosted ==
    /\ jobs_found = Len(emitted)
    /\ (pc \in {"comments", "write", "done"} /\ ThreadServed) =>
          \A i \in Unpostable :
              /\ \A k \in 1..Len(parsed) : parsed[k] # First30[i]
              /\ \A e \in 1..Len(emitted) : emitted[e].data.rawJob.id # IntToStr(First30[i])

\* a deleted comment and a comment without text were fetched, another was emitted
C6_Witness ==
    /\ pc = "done"
    /\ ThreadServed
    /\ \E i \in Unpostable : CommentOf(First30[i]).deleted
    /\ \E i \in Unpostable : ~CommentOf(First30[i]).hasText
    /\ emitted # <<>>

\* C7: with a source that is neither "hackernews" nor "all" (a missing one too) the
\* handler does nothing: no request, no event, no state write, the record as it was.
C7_OtherSourceNoWork ==
    (runs > 0 /\ ~AcceptedSource) =>
        /\ pc = "skipped"
        /\ fetchLog = <<>>
        /\ emitted = <<>>
        /\ writes = 0
        /\ store = storeAtStart

\* a missing source, after a run that wrote a record
C7_Witness ==
    /\ pc = "skipped"
    /\ source = ""
    /\ store # NoRecord
    /\ store = storeAtStart

\* the thread request failed, or the thread is empty or has no child list
ThreadLevelFailure == threadOutcome = "fail" \/ (threadOutcome = "ok" /\ NoComments(thread))

C8_Safety ==
    /\ Running => writes = 0
    /\ pc = "done" => writes = 1 /\ store.jobCount = Len(emitted)
    /\ (LoopsDone /\ ThreadLevelFailure) =>
          /\ fetchLog = <<ThreadsToProcess[1]>>
          /\ emitted = <<>>
          /\ jobs_found = 0
    /\ (pc = "done" /\ ThreadLevelFailure) =>
          /\ store.jobCount = 0
          /\ store.status = "error"

\* the record is written by the step that ends the run, and nothing is emitted after
C8_Step ==
    /\ (runs' = runs /\ writes' # writes) => (pc = "write" /\ pc' = "done" /\ emitted' = emitted)
    /\ (runs' = runs /\ pc = "done") => (pc' = "done" /\ emitted' = emitted /\ store' = store)

\* C8: a run with an accepted source writes the status record once, after all its
\* emits, and always gets there; a thread-level failure is caught: no comment is
\* requested, nothing is emitted, and the record says jobCount 0, status "error".
C8_StatusAlwaysWritten ==
    /\ []C8_Safety
    /\ [][C8_Step]_vars
    /\ (Running ~> pc = "done")

C8_Witness ==
    /\ pc = "done"
    /\ threadOutcome = "fail"
    /\ writes = 1
    /\ store.status = "error"

\* the ids of the comments this run's emitted events came from, in order
AcceptedIds == SelectSeq(parsed, LAMBDA id : JobData[id][now] # None)

Untimed(job) == [job EXCEPT !.posted_at = 0]

\* C10 as stated: a re-invocation over the same upstream emits the same records and
\* counts the same. (Refuted: a comment without "time" is stamped with the clock of
\* the run.)
C10_SameEmitsOnRerun ==
    (pc = "done" /\ prev # NoPrev) =>
        /\ jobs_found = prev.jobCount
        /\ store.jobCount = prev.jobCount
        /\ {emitted[e] : e \in 1..Len(emitted)} = {prev.emitted[e] : e \in 1..Len(prev.emitted)}

\* C10 amended: a re-invocation over the same upstream counts the same and emits the
\* same records, but for posted_at of the comments that carry no "time", which is the
\* clock of the run.
C10_SameEmitsOnRerunButClock ==
    (pc = "done" /\ prev # NoPrev) =>
        /\ jobs_found = prev.jobCount
        /\ store.jobCount = prev.jobCount
        /\ Len(emitted) = Len(prev.emitted)
        /\ \A e \in 1..Len(emitted) :
              /\ emitted[e].topic = prev.emitted[e].topic
              /\ emitted[e].data.source = prev.emitted[e].data.source
              /\ Untimed(emitted[e].data.rawJob) = Untimed(prev.emitted[e].data.rawJob)
              /\ CommentOf(AcceptedIds[e]).hasTime => emitted[e] = prev.emitted[e]

\* a second run that emitted a comment with "time" and one without
C10_Witness ==
    /\ pc = "done"
    /\ prev # NoPrev
    /\ \E e \in 1..Len(emitted) : CommentOf(AcceptedIds[e]).hasTime
    /\ \E e \in 1..Len(emitted) : emitted[e] # prev.emitted[e]

====
